---- MODULE Spec2Model ----
(***************************************************************************)
(* Model of klgl::file_loader (src/code/klgl/src/file_loader.rs): the      *)
(* deduplicating, callback based asynchronous file loader, its endpoints,  *)
(* the background fetch tasks and the endpoint delivery tasks.             *)
(*                                                                         *)
(* The loader state (FileLoaderInner) is the record `inner`.  Every public *)
(* method is one action that performs the whole method body.  The fetch    *)
(* tasks and the delivery tasks spawned by the methods are separate        *)
(* actions: they run on the executor, not inside the method.               *)
(***************************************************************************)
EXTENDS Integers, Sequences, FiniteSets, Bags, TLC

\* ------------------------------------------------------------------ bounds
Names == {"a.png", "b.png"}        \* paths the callers ask for
Datas == {<<>>, <<7>>}             \* Vec<u8> a fetch can deliver
MaxCalls == 3                      \* get_or_request calls in one run
MaxEndpoints == 1                  \* make_endpoint calls in one run
MaxInjected == 1                   \* completion messages not sent by a fetch task

Callers == {"loader", "clone"}     \* FileLoader handles sharing one inner
MaxEye == 1                        \* the camera's eye stays within MaxEye steps
MaxTurns == 2                      \* a Rotator angle is 0..MaxTurns quarter turns

\* Option<T>
None == <<>>
Some(x) == <<x>>

VARIABLES
    inner,          \* FileLoaderInner behind Rc<RefCell<..>>
    channel,        \* completion channel (sender, receiver): queue of (path, data)
    tasks,          \* bag of paths: running fetch tasks (loader_fn)
    sends,          \* bag of [chan, file]: running endpoint delivery tasks
    chans,          \* endpoint channels: sequence of [queue, closed]
    endpoints,      \* FileLoaderEndpoint objects handed out: [id, receiver, alive]
    panicked,       \* a method panicked
    log,            \* log::error! lines, as a set of <<tag, path>>
    probe,          \* what the latest method call returned, if it was try_get_file
    \* history of the run, kept for the properties
    calls,          \* path -> one record per get_or_request call for it, in call
                    \* order; <<path, index>> is the token of the call's callback
    seen,           \* the paths requested, in order of first request
    invoked,        \* one record per callback invocation, in invocation order
    snaps,          \* what the loader looked like at each of those invocations
    dispatched,     \* path -> number of fetch tasks ever spawned
    fetched,        \* path -> set of data a fetch task sent for it
    failed,         \* paths whose fetch ended in Err
    processed,      \* paths whose completion message poll() has received
    polled_failed,  \* paths that were already failed when some poll() ran
    injected,       \* completion messages sent by something other than a fetch task
    handles,        \* FileLoader handles that made a request (in a traced run)
    trace,          \* what a traced run records: "handles", "batch", "race"
    renderer,       \* tutorial09 Renderer: its flags, and what its latest
                    \* window_event call did
    camera          \* klgl Camera: eye, rotator, aspect, cache, latest getter result

vars == <<inner, channel, tasks, sends, chans, endpoints, panicked, log, probe,
          calls, seen, invoked, snaps, dispatched, fetched, failed, processed,
          polled_failed, injected, handles, trace, renderer, camera>>

\* ------------------------------------------------------------ map helpers
\* HashMap::insert / HashMap::remove on a function with a finite domain
MapInsert(m, k, v) == [x \in DOMAIN m \cup {k} |-> IF x = k THEN v ELSE m[x]]
MapRemove(m, k) == [x \in DOMAIN m \ {k} |-> m[x]]
EmptyMap == [x \in {} |-> 0]

\* bimap::BiHashMap as a set of <<left, right>> pairs
get_by_left(m, l) ==
    IF \E p \in m : p[1] = l THEN Some((CHOOSE p \in m : p[1] = l)[2]) ELSE None

get_by_right(m, r) ==
    IF \E p \in m : p[2] = r THEN Some((CHOOSE p \in m : p[2] = r)[1]) ELSE None

\* BiHashMap::insert overwrites any pair sharing the left or the right value
bimap_insert(m, l, r) == {p \in m : p[1] # l /\ p[2] # r} \cup {<<l, r>>}

\* ------------------------------------------------------- FileLoaderInner
find_file_id(in, path) == get_by_left(in.file_id_map, path)

\* FileId is a u32; the increment cannot overflow within MaxCalls names
find_or_add_file_id_same_id(in, path) ==
    LET found == find_file_id(in, path) IN
    IF found # None
    THEN [inner |-> in, id |-> found[1]]
    ELSE [inner |-> [in EXCEPT !.file_id_map = bimap_insert(@, path, in.next_file_id)],
          id |-> in.next_file_id]

find_or_add_file_id_from_one(in, path) ==
    LET found == find_file_id(in, path) IN
    IF found # None
    THEN [inner |-> in, id |-> found[1]]
    ELSE [inner |-> [in EXCEPT !.next_file_id = @ + 1,
                               !.file_id_map = bimap_insert(@, path, in.next_file_id + 1)],
          id |-> in.next_file_id + 1]

find_or_add_file_id(in, path) ==
    LET found == find_file_id(in, path) IN
    IF found # None
    THEN [inner |-> in, id |-> found[1]]
    ELSE [inner |-> [in EXCEPT !.next_file_id = @ + 1,
                               !.file_id_map = bimap_insert(@, path, in.next_file_id)],
          id |-> in.next_file_id]

\* --------------------------------------------------------------- queries
path_by_id(in, id) == get_by_right(in.file_id_map, id)

try_get_file_pending(in, path) ==
    LET found == get_by_left(in.file_id_map, path) IN
    IF found = None THEN None
    ELSE IF found[1] \in DOMAIN in.ready_files THEN Some(in.ready_files[found[1]])
    ELSE IF found[1] \in DOMAIN in.pending_files
         THEN Some([id |-> found[1], data |-> <<>>])
    ELSE None

try_get_file(in, path) ==
    LET found == get_by_left(in.file_id_map, path) IN
    IF found = None THEN None
    ELSE IF found[1] \in DOMAIN in.ready_files THEN Some(in.ready_files[found[1]])
    ELSE None

\* lines 135-145: the whole call; `inner` is borrowed mutably but only read
try_get_file_call_adds_id(in, path) ==
    LET r == find_or_add_file_id(in, path) IN
    [inner |-> r.inner,
     result |-> IF r.id \in DOMAIN in.ready_files THEN Some(in.ready_files[r.id]) ELSE None]

try_get_file_call(in, path) == [inner |-> in, result |-> try_get_file(in, path)]

\* ----------------------------------------------------------- the "world"
\* What a method body and the closures it runs can touch.
World == [inner |-> inner, channel |-> channel, tasks |-> tasks, sends |-> sends,
          log |-> log, invoked |-> invoked, snaps |-> snaps, dispatched |-> dispatched,
          processed |-> processed, trace |-> trace, ret |-> None,
          panicked |-> panicked, borrow |-> 0]

SetWorld(w) ==
    /\ inner' = w.inner
    /\ channel' = w.channel
    /\ tasks' = w.tasks
    /\ sends' = w.sends
    /\ log' = w.log
    /\ invoked' = w.invoked
    /\ snaps' = w.snaps
    /\ dispatched' = w.dispatched
    /\ processed' = w.processed
    /\ panicked' = w.panicked

\* RefCell<FileLoaderInner>: the borrow flag is 0 when unused, -1 while
\* borrowed mutably, n > 0 while borrowed n times immutably; a borrow that
\* cannot be given panics
borrow_mut_unchecked(w) == [w EXCEPT !.borrow = -1]

borrow_mut(w) ==
    IF w.borrow # 0 THEN [w EXCEPT !.panicked = TRUE] ELSE [w EXCEPT !.borrow = -1]

borrow(w) ==
    IF w.borrow < 0 THEN [w EXCEPT !.panicked = TRUE] ELSE [w EXCEPT !.borrow = @ + 1]

\* the RefMut goes out of scope, at return or while a panic unwinds
drop_borrow(w) == [w EXCEPT !.borrow = 0]

\* What a callback would find if it could look at the loader while it runs:
\* is file_data the Ready record of its id, has the id a Pending record, is a
\* name whose message is still queued already Ready, and (when the run is
\* traced) how many messages this poll() has still to receive.
Snapshot(w, file_data) ==
    [ready |-> /\ file_data.id \in DOMAIN w.inner.ready_files
               /\ w.inner.ready_files[file_data.id] = file_data,
     pending |-> file_data.id \in DOMAIN w.inner.pending_files,
     queued_ready |-> \E k \in DOMAIN w.channel :
                         LET found == find_file_id(w.inner, w.channel[k][1]) IN
                         found # None /\ found[1] \in DOMAIN w.inner.ready_files,
     left |-> IF "batch" \in w.trace THEN Len(w.channel) ELSE 0]

\* A callback is [cb, sender]: cb is the token of the get_or_request call that
\* passed it; sender = None for a caller's own closure, Some(chan) for the
\* closure built by FileLoaderEndpoint::request, which spawns a delivery task.
\* the endpoint closure spawns its future twice
call_spawn_twice(w, callback, file_data) ==
    LET w1 == [w EXCEPT !.invoked = Append(@, [cb |-> callback.cb, file |-> file_data, reentry |-> "none"]),
                        !.snaps = Append(@, Snapshot(w, file_data))]
    IN  IF callback.sender = None THEN w1
        ELSE [w1 EXCEPT !.sends = @ (+) SetToBag({[chan |-> callback.sender[1],
                                                   file |-> file_data]})
                                    (+) SetToBag({[chan |-> callback.sender[1],
                                                   file |-> file_data]})]

\* the endpoint closure builds its future and never spawns it
call_no_spawn(w, callback, file_data) ==
    [w EXCEPT !.invoked = Append(@, [cb |-> callback.cb, file |-> file_data, reentry |-> "none"]),
              !.snaps = Append(@, Snapshot(w, file_data))]

\* a closure that calls a method of a clone of the loader: the method takes
\* its borrow of `inner` first (borrow for path_by_id, borrow_mut for the
\* others) and runs only if it gets it
reenter(w, method) ==
    LET b == IF method = "path_by_id" THEN borrow(w) ELSE borrow_mut(w) IN
    IF b.panicked THEN [world |-> b, reentry |-> "panicked"]
    ELSE [world |-> [b EXCEPT !.borrow = w.borrow], reentry |-> "ran"]

\* callback(file_data); nothing more is called once a panic unwinds
call(w, callback, file_data) ==
    IF w.panicked THEN w
    ELSE
    LET r == IF callback.reenter = None THEN [world |-> w, reentry |-> "none"]
             ELSE reenter(w, callback.reenter[1])
        w1 == [r.world EXCEPT
                  !.invoked = Append(@, [cb |-> callback.cb, file |-> file_data,
                                         reentry |-> r.reentry]),
                  !.snaps = Append(@, Snapshot(w, file_data))]
    IN  IF callback.sender = None
        THEN w1
        ELSE [w1 EXCEPT !.sends = @ (+) SetToBag({[chan |-> callback.sender[1],
                                                   file |-> file_data]})]

\* async_std::task::spawn(loader_fn) / spawn_local(loader_fn)
spawn_loader_fn(w, path) ==
    [w EXCEPT !.tasks = @ (+) SetToBag({path}),
              !.dispatched[path] = @ + 1]


\* ------------------------------------------------ FileLoader::get_or_request
\* lines 155-158: the file is cached, run the callback now
get_or_request_ready_evict(w, id, callback) ==
    LET w1 == call(w, callback, w.inner.ready_files[id]) IN
    [w1 EXCEPT !.inner.ready_files = MapRemove(@, id), !.ret = Some(id)]

\* on a cached file the callback is queued for the next completion
get_or_request_ready_queue(w, id, callback) ==
    [w EXCEPT !.inner.pending_files = MapInsert(@, id, <<callback>>), !.ret = Some(id)]

get_or_request_ready(w, id, callback) ==
    [call(w, callback, w.inner.ready_files[id]) EXCEPT !.ret = Some(id)]

\* lines 160-163: a fetch is under way, queue the callback behind the others
get_or_request_pending_refetch(w, id, callback) ==
    [spawn_loader_fn(w, path_by_id(w.inner, id)[1])
        EXCEPT !.inner.pending_files[id] = Append(@, callback), !.ret = Some(id)]

get_or_request_pending_replace(w, id, callback) ==
    [w EXCEPT !.inner.pending_files[id] = <<callback>>, !.ret = Some(id)]

get_or_request_pending_front(w, id, callback) ==
    [w EXCEPT !.inner.pending_files[id] = <<callback>> \o @, !.ret = Some(id)]

\* a waiter that comes through an endpoint starts a fetch of its own
get_or_request_pending_by_sender(w, id, callback) ==
    LET w1 == IF callback.sender = None THEN w
              ELSE spawn_loader_fn(w, path_by_id(w.inner, id)[1])
    IN  [w1 EXCEPT !.inner.pending_files[id] = Append(@, callback), !.ret = Some(id)]

\* a waiter that finds no fetch task running and no completion queued
\* starts the fetch again
get_or_request_pending_retry(w, id, callback) ==
    LET path == path_by_id(w.inner, id)[1]
        w1 == IF BagIn(path, w.tasks) \/ \E k \in DOMAIN w.channel : w.channel[k][1] = path
              THEN w ELSE spawn_loader_fn(w, path)
    IN  [w1 EXCEPT !.inner.pending_files[id] = Append(@, callback), !.ret = Some(id)]

get_or_request_pending(w, id, callback) ==
    [w EXCEPT !.inner.pending_files[id] = Append(@, callback), !.ret = Some(id)]

\* lines 165-194: first sight, create the Pending record and spawn the fetch
\* the fetch is spawned and no Pending record is kept
get_or_request_new_no_record(w, id, path, callback) ==
    [spawn_loader_fn(w, path) EXCEPT !.ret = Some(id)]

\* the load is awaited in place instead of being spawned
get_or_request_new_inline(w, id, path, callback) ==
    LET file_data == [id |-> id, data |-> <<7>>]
        w1 == [w EXCEPT !.inner.ready_files = MapInsert(@, id, file_data),
                        !.dispatched[path] = @ + 1]
    IN  [call(w1, callback, file_data) EXCEPT !.ret = Some(id)]

get_or_request_new(w, id, path, callback) ==
    [spawn_loader_fn(w, path)
        EXCEPT !.inner.pending_files = MapInsert(@, id, <<callback>>),
               !.ret = Some(id)]

get_or_request_no_ready_check(w, path, callback) ==
    LET r == find_or_add_file_id(w.inner, path)
        w1 == [w EXCEPT !.inner = r.inner]
    IN  IF r.id \in DOMAIN w1.inner.pending_files
        THEN get_or_request_pending(w1, r.id, callback)
        ELSE get_or_request_new(w1, r.id, path, callback)

get_or_request(w, path, callback) ==
    LET b == borrow_mut(w)
        r == find_or_add_file_id(b.inner, path)
        w1 == [b EXCEPT !.inner = r.inner]
    IN  IF b.panicked THEN b
        ELSE drop_borrow(IF r.id \in DOMAIN w1.inner.ready_files
                         THEN get_or_request_ready(w1, r.id, callback)
                         ELSE IF r.id \in DOMAIN w1.inner.pending_files
                         THEN get_or_request_pending(w1, r.id, callback)
                         ELSE get_or_request_new(w1, r.id, path, callback))

\* lines 174-184: the fetch task; result is [ok, data], the outcome of
\* load_binary.  Returns what the task sends and what it logs.
loader_fn_send_on_err(path, result) ==
    IF result.ok
    THEN [send |-> << <<path, result.data>> >>, log |-> {}]
    ELSE [send |-> << <<path, <<>> >> >>, log |-> {<<"fetch_failed", path>>}]

loader_fn(path, result) ==
    IF result.ok
    THEN [send |-> << <<path, result.data>> >>, log |-> {}]
    ELSE [send |-> <<>>, log |-> {<<"fetch_failed", path>>}]

\* ---------------------------------------------------------- FileLoader::poll
\* lines 225-227: std::mem::take the callbacks and run them front to back
RECURSIVE call_all(_, _, _)
call_all(w, callbacks, file_data) ==
    IF callbacks = <<>> THEN w
    ELSE call_all(call(w, Head(callbacks), file_data), Tail(callbacks), file_data)

\* lines 200-236: the body of the while loop for one received message
poll_one_keep_pending(w, msg) ==
    LET path == msg[1]
        data == msg[2]
        r == find_or_add_file_id(w.inner, path)
        id == r.id
        w1 == [w EXCEPT !.inner = r.inner, !.processed = @ \cup {path}]
        removed_entry == IF id \in DOMAIN w1.inner.pending_files
                         THEN Some(<<id, w1.inner.pending_files[id]>>) ELSE None
        w3 == IF id \in DOMAIN w1.inner.ready_files
              THEN [w1 EXCEPT !.log = @ \cup {<<"already_cached", path>>}]
              ELSE [w1 EXCEPT !.inner.ready_files =
                                  MapInsert(@, id, [id |-> id, data |-> data])]
    IN  IF removed_entry = None THEN w3
        ELSE call_all(w3, removed_entry[1][2], w3.inner.ready_files[id])

poll_one_overwrite(w, msg) ==
    LET path == msg[1]
        data == msg[2]
        r == find_or_add_file_id(w.inner, path)
        id == r.id
        w1 == [w EXCEPT !.inner = r.inner, !.processed = @ \cup {path}]
        removed_entry == IF id \in DOMAIN w1.inner.pending_files
                         THEN Some(<<id, w1.inner.pending_files[id]>>) ELSE None
        w2 == IF removed_entry = None
              THEN [w1 EXCEPT !.log = @ \cup {<<"unexpected", path>>}]
              ELSE [w1 EXCEPT !.inner.pending_files = MapRemove(@, id)]
        w3 == [w2 EXCEPT !.inner.ready_files =
                             MapInsert(@, id, [id |-> id, data |-> data])]
    IN  IF removed_entry = None THEN w3
        ELSE call_all(w3, removed_entry[1][2], w3.inner.ready_files[id])

\* the waiters are run first, the Ready record is inserted after them
poll_one_callbacks_first(w, msg) ==
    LET path == msg[1]
        data == msg[2]
        r == find_or_add_file_id(w.inner, path)
        id == r.id
        w1 == [w EXCEPT !.inner = r.inner, !.processed = @ \cup {path}]
        removed_entry == IF id \in DOMAIN w1.inner.pending_files
                         THEN Some(<<id, w1.inner.pending_files[id]>>) ELSE None
        w2 == IF removed_entry = None
              THEN [w1 EXCEPT !.log = @ \cup {<<"unexpected", path>>}]
              ELSE call_all([w1 EXCEPT !.inner.pending_files = MapRemove(@, id)],
                            removed_entry[1][2], [id |-> id, data |-> data])
    IN  IF id \in DOMAIN w2.inner.ready_files
        THEN [w2 EXCEPT !.log = @ \cup {<<"already_cached", path>>}]
        ELSE [w2 EXCEPT !.inner.ready_files = MapInsert(@, id, [id |-> id, data |-> data])]

\* only the first waiter of the list is run
poll_one_first_waiter(w, msg) ==
    LET path == msg[1]
        data == msg[2]
        r == find_or_add_file_id(w.inner, path)
        id == r.id
        w1 == [w EXCEPT !.inner = r.inner, !.processed = @ \cup {path}]
        removed_entry == IF id \in DOMAIN w1.inner.pending_files
                         THEN Some(<<id, w1.inner.pending_files[id]>>) ELSE None
        w2 == IF removed_entry = None
              THEN [w1 EXCEPT !.log = @ \cup {<<"unexpected", path>>}]
              ELSE [w1 EXCEPT !.inner.pending_files = MapRemove(@, id)]
        w3 == IF id \in DOMAIN w2.inner.ready_files
              THEN [w2 EXCEPT !.log = @ \cup {<<"already_cached", path>>}]
              ELSE [w2 EXCEPT !.inner.ready_files =
                                  MapInsert(@, id, [id |-> id, data |-> data])]
    IN  IF removed_entry = None THEN w3
        ELSE LET removed_key == removed_entry[1][1]
                 pending == removed_entry[1][2]
             IN  IF removed_key \in DOMAIN w3.inner.ready_files
                 THEN call_all(w3, <<Head(pending)>>, w3.inner.ready_files[removed_key])
                 ELSE [w3 EXCEPT !.log = @ \cup {<<"very_wrong", path>>}]

poll_one(w, msg) ==
    LET path == msg[1]
        data == msg[2]
        r == find_or_add_file_id(w.inner, path)
        id == r.id
        w1 == [w EXCEPT !.inner = r.inner, !.processed = @ \cup {path}]
        removed_entry == IF id \in DOMAIN w1.inner.pending_files
                         THEN Some(<<id, w1.inner.pending_files[id]>>) ELSE None
        w2 == IF removed_entry = None
              THEN [w1 EXCEPT !.log = @ \cup {<<"unexpected", path>>}]
              ELSE [w1 EXCEPT !.inner.pending_files = MapRemove(@, id)]
        w3 == IF id \in DOMAIN w2.inner.ready_files
              THEN [w2 EXCEPT !.log = @ \cup {<<"already_cached", path>>}]
              ELSE [w2 EXCEPT !.inner.ready_files =
                                  MapInsert(@, id, [id |-> id, data |-> data])]
    IN  IF removed_entry = None THEN w3
        ELSE LET removed_key == removed_entry[1][1]
                 pending == removed_entry[1][2]
             IN  IF removed_key \in DOMAIN w3.inner.ready_files
                 THEN call_all(w3, pending, w3.inner.ready_files[removed_key])
                 ELSE [w3 EXCEPT !.log = @ \cup {<<"very_wrong", path>>}]

\* `if let` in place of `while let`: one message per call
poll_one_message(w) ==
    IF w.channel = <<>> THEN w
    ELSE poll_one([w EXCEPT !.channel = Tail(@)], Head(w.channel))

\* lines 197-238: drain the completion channel with try_recv
RECURSIVE poll_loop(_)
poll_loop(w) ==
    IF w.channel = <<>> \/ w.panicked THEN w
    ELSE poll_loop(poll_one([w EXCEPT !.channel = Tail(@)], Head(w.channel)))

\* line 198: `inner` is borrowed mutably for the whole call
poll(w) ==
    LET b == borrow_mut(w) IN
    IF b.panicked THEN b ELSE drop_borrow(poll_loop(b))

\* ------------------------------------------------ FileLoader::make_endpoint
\* lines 240-256; the new channel is chans[Len(chans) + 1]
\* the id is handed out and the sender is not put in the map
make_endpoint_no_insert(in, chan) ==
    [inner |-> [in EXCEPT !.next_endpoint_id = @ + 1],
     endpoint |-> [id |-> in.next_endpoint_id, receiver |-> chan, alive |-> TRUE]]

\* next_endpoint_id is handed out and not advanced
make_endpoint_same_id(in, chan) ==
    [inner |-> [in EXCEPT !.endpoint_id_map = MapInsert(@, in.next_endpoint_id, chan)],
     endpoint |-> [id |-> in.next_endpoint_id, receiver |-> chan, alive |-> TRUE]]

make_endpoint(in, chan) ==
    [inner |-> [in EXCEPT !.next_endpoint_id = @ + 1,
                          !.endpoint_id_map = MapInsert(@, in.next_endpoint_id, chan)],
     endpoint |-> [id |-> in.next_endpoint_id, receiver |-> chan, alive |-> TRUE]]

\* ------------------------------------------------------------ klgl Camera
\* f32 values are integers here plus NaN; angles are whole quarter turns, for
\* which sin and cos are taken as exactly -1, 0 or 1. NaN is a value that no
\* arithmetic of the model produces from numbers: fadd, fmul and fneg pass it on.
NaN == -999

fadd(a, b) == IF NaN \in {a, b} THEN NaN ELSE a + b

fmul(a, b) == IF NaN \in {a, b} THEN NaN ELSE a * b

fneg(a) == IF a = NaN THEN NaN ELSE 0 - a

fsub(a, b) == fadd(a, fneg(b))

\* f32 ==: NaN equals nothing, itself included
float_eq(a, b) == a # NaN /\ b # NaN /\ a = b

\* Point3<f32> == : every component equal
point_eq(p, q) == \A i \in 1..3 : float_eq(p[i], q[i])

unit_x == <<1, 0, 0>>

unit_y == <<0, 1, 0>>

unit_z == <<0, 0, 1>>

dot(a, b) == fadd(fadd(fmul(a[1], b[1]), fmul(a[2], b[2])), fmul(a[3], b[3]))

cross(a, b) ==
    <<fsub(fmul(a[2], b[3]), fmul(a[3], b[2])),
      fsub(fmul(a[3], b[1]), fmul(a[1], b[3])),
      fsub(fmul(a[1], b[2]), fmul(a[2], b[1]))>>

\* v / |v|; the vectors normalised here are rotated unit vectors, of length 1
normalize(v) == IF dot(v, v) = NaN THEN <<NaN, NaN, NaN>> ELSE v

\* rotator.rs sincos, for Deg values that are multiples of 90
sincos(deg) ==
    LET q == (deg \div 90) % 4 IN
    <<<<0, 1, 0, -1>>[q + 1], <<1, 0, -1, 0>>[q + 1]>>

\* Rotator::to_matrix: the columns of the Matrix4
to_matrix(rotator) ==
    LET sa == sincos(rotator.roll)[1]
        ca == sincos(rotator.roll)[2]
        sb == sincos(rotator.pitch)[1]
        cb == sincos(rotator.pitch)[2]
        sg == sincos(rotator.yaw)[1]
        cg == sincos(rotator.yaw)[2]
    IN <<<<cb * cg, cb * sg, 0 - sb, 0>>,
         <<sa * sb * cg - ca * sg, sa * sb * sg + ca * cg, sa * cb, 0>>,
         <<ca * sb * cg + sa * sg, ca * sb * sg - sa * cg, ca * cb, 0>>,
         <<0, 0, 0, 1>>>>

\* Matrix4::transform_vector: m * (v, 0), truncated to three components
transform_vector(m, v) ==
    [j \in 1..3 |-> fadd(fadd(fmul(m[1][j], v[1]), fmul(m[2][j], v[2])),
                         fmul(m[3][j], v[3]))]

\* cgmath Matrix4::look_to_rh
look_to_rh(eye, dir, up) ==
    LET f == normalize(dir)
        s == normalize(cross(f, up))
        u == cross(s, f)
    IN <<<<s[1], u[1], fneg(f[1]), 0>>,
         <<s[2], u[2], fneg(f[2]), 0>>,
         <<s[3], u[3], fneg(f[3]), 0>>,
         <<fneg(dot(eye, s)), fneg(dot(eye, u)), dot(eye, f), 1>>>>

\* Camera::new; fovy, znear and zfar never change and are left out
NewCamera ==
    [eye |-> <<0, 0, 0>>,
     rotator |-> [yaw |-> 0, pitch |-> 0, roll |-> 0],
     aspect |-> 1,
     cache |-> None,
     \* history: what the latest getter returned, the arguments of the latest
     \* set_eye and set_rotator
     ret |-> None,
     latest |-> [eye |-> <<0, 0, 0>>, rotator |-> [yaw |-> 0, pitch |-> 0, roll |-> 0]]]

compute_cache(c) ==
    LET r == to_matrix(c.rotator)
        forward == transform_vector(r, unit_x)
        right == transform_vector(r, unit_y)
        up == transform_vector(r, unit_z)
        view == look_to_rh(c.eye, forward, up)
    IN [forward |-> forward, up |-> up, right |-> right,
        rotator_matrix |-> r, view_matrix |-> view]

clear_cache(c) == [c EXCEPT !.cache = None]

\* get_cache: the camera after the call (cache filled)
get_cache(c) ==
    IF c.cache = None THEN [c EXCEPT !.cache = Some(compute_cache(c))] ELSE c

set_eye(c, eye) ==
    LET c1 == [c EXCEPT !.latest.eye = eye, !.ret = None] IN
    IF ~point_eq(c1.eye, eye) THEN clear_cache([c1 EXCEPT !.eye = eye]) ELSE c1

set_rotator_keep_cache(c, rotator) ==
    [c EXCEPT !.rotator = rotator, !.latest.rotator = rotator, !.ret = None]

set_rotator(c, rotator) ==
    clear_cache([c EXCEPT !.rotator = rotator, !.latest.rotator = rotator,
                          !.ret = None])

set_aspect(c, aspect) ==
    LET c1 == [c EXCEPT !.ret = None] IN
    IF ~float_eq(aspect, c1.aspect) THEN clear_cache([c1 EXCEPT !.aspect = aspect])
    ELSE c1

forward(c) ==
    LET g == get_cache(c) IN [g EXCEPT !.ret = Some(<<"forward", g.cache[1].forward>>)]

right(c) ==
    LET g == get_cache(c) IN [g EXCEPT !.ret = Some(<<"right", g.cache[1].right>>)]

up(c) ==
    LET g == get_cache(c) IN [g EXCEPT !.ret = Some(<<"up", g.cache[1].up>>)]

\* ------------------------------------------------- klgl CameraController
\* winit WindowEvent values: one record shape for every kind, a field a kind
\* does not carry is "-" (or <<0, 0>>)
Ev(kind) ==
    [kind |-> kind, key |-> "-", state |-> "-", button |-> "-", phase |-> "-",
     size |-> <<0, 0>>, position |-> <<0, 0>>]

CloseRequested == Ev("CloseRequested")

KeyboardInput(key, state) == [Ev("KeyboardInput") EXCEPT !.key = key, !.state = state]

Resized(size) == [Ev("Resized") EXCEPT !.size = size]

RedrawRequested == Ev("RedrawRequested")

CursorMoved(position) == [Ev("CursorMoved") EXCEPT !.position = position]

MouseInput(button, state) ==
    [Ev("MouseInput") EXCEPT !.button = button, !.state = state]

Touch(phase, location) == [Ev("Touch") EXCEPT !.phase = phase, !.position = location]

\* CameraController::new(0.2, 0.2); the two speeds never change
NewController ==
    [forward |-> FALSE, back |-> FALSE, left |-> FALSE, right |-> FALSE,
     rmb |-> FALSE, prev_cursor |-> None, current_cursor |-> None]

\* the controller after the call, and the bool the call returns
process_events(cc, event) ==
    IF event.kind = "Touch" THEN
        [controller |->
            IF event.phase = "Started" THEN [cc EXCEPT !.rmb = TRUE]
            ELSE IF event.phase \in {"Ended", "Cancelled"}
            THEN [cc EXCEPT !.rmb = FALSE, !.prev_cursor = None,
                            !.current_cursor = None]
            ELSE [cc EXCEPT !.prev_cursor = cc.current_cursor,
                            !.current_cursor = Some(event.position)],
         ret |-> TRUE]
    ELSE IF event.kind = "CursorMoved" THEN
        [controller |-> [cc EXCEPT !.prev_cursor = cc.current_cursor,
                                   !.current_cursor = Some(event.position)],
         ret |-> FALSE]
    ELSE IF event.kind = "MouseInput" THEN
        IF event.button = "Right"
        THEN [controller |-> [cc EXCEPT !.rmb = (event.state = "Pressed")],
              ret |-> TRUE]
        ELSE [controller |-> cc, ret |-> FALSE]
    ELSE IF event.kind = "KeyboardInput" THEN
        LET k == event.state = "Pressed" IN
        IF event.key \in {"KeyW", "ArrowUp"}
        THEN [controller |-> [cc EXCEPT !.forward = k], ret |-> TRUE]
        ELSE IF event.key \in {"KeyA", "ArrowLeft"}
        THEN [controller |-> [cc EXCEPT !.left = k], ret |-> TRUE]
        ELSE IF event.key \in {"KeyS", "ArrowDown"}
        THEN [controller |-> [cc EXCEPT !.back = k], ret |-> TRUE]
        ELSE IF event.key \in {"KeyD", "ArrowRight"}
        THEN [controller |-> [cc EXCEPT !.right = k], ret |-> TRUE]
        ELSE [controller |-> cc, ret |-> FALSE]
    ELSE [controller |-> cc, ret |-> FALSE]

\* move_speed = rotation_speed = 0.2 = 1 / SpeedDivisor. Cursor positions are
\* multiples of SpeedDivisor pixels, and lengths (the camera's eye) are counted
\* in steps of move_speed, so that both products are whole numbers.
SpeedDivisor == 5

\* update_camera, first half: the right button (or a touch) is held and the
\* cursor has moved, so the camera turns
turn_camera(cc, cam) ==
    LET delta == [i \in 1..2 |->
                     (cc.current_cursor[1][i] - cc.prev_cursor[1][i]) \div SpeedDivisor]
    IN [controller |-> [cc EXCEPT !.prev_cursor = None],
        camera |-> set_rotator(cam, [cam.rotator EXCEPT !.yaw = @ + delta[1],
                                                        !.pitch = @ + delta[2]])]

\* camera.set_eye(eye + forward() * fwd * move_speed + right() * rgt * move_speed),
\* on the camera as the two getters leave it
step_eye(cam, fwd, rgt) ==
    set_eye(cam, [i \in 1..3 |->
                     fadd(fadd(cam.eye[i], fmul(forward(cam).ret[1][2][i], fwd)),
                          fmul(right(cam).ret[1][2][i], rgt))])

\* update_camera, second half: the pressed keys move the eye
move_camera(cc, cam) ==
    LET fwd == (IF cc.forward THEN 1 ELSE 0) - (IF cc.back THEN 1 ELSE 0)
        rgt == (IF cc.left THEN 1 ELSE 0) - (IF cc.right THEN 1 ELSE 0)
    IN IF fwd # 0 \/ rgt # 0 THEN step_eye(right(forward(cam)), fwd, rgt) ELSE cam

moved(t) == [controller |-> t.controller, camera |-> move_camera(t.controller, t.camera)]

\* the controller and the camera after the call
update_camera(cc, cam) ==
    IF cc.rmb /\ cc.prev_cursor # None /\ cc.current_cursor # None
    THEN moved(turn_camera(cc, cam))
    ELSE moved([controller |-> cc, camera |-> cam])

\* --------------------------------------------------- tutorial09 Renderer
\* Renderer::new. The GPU objects are left out; config is the size the
\* RenderContext's surface is configured with, did is history.
NewRenderer ==
    [surface_configured |-> FALSE,
     show_depth |-> FALSE,
     display_depth_draw_pass |-> FALSE,
     config |-> <<1, 1>>,
     camera_controller |-> NewController,
     exit |-> FALSE,
     \* history: a Resized event has arrived; the calls the handler of the
     \* latest event made, in order
     resized |-> FALSE,
     did |-> <<>>]

\* the renderer and its camera, as the handlers pass them on
Did(s, what) == [s EXCEPT !.renderer.did = Append(@, what)]

\* RenderContext::aspect: width / height
aspect(config) == config[1] \div config[2]

resize(s, width, height) ==
    IF width > 0 /\ height > 0
    THEN [(IF s.renderer.display_depth_draw_pass
           THEN Did(Did(s, "resize"), "on_resize") ELSE Did(s, "resize"))
          EXCEPT !.renderer.config = <<width, height>>,
                 !.camera = set_aspect(@, aspect(<<width, height>>))]
    ELSE s

\* update() after its first statement: u is what update_camera returns
update_rest(s, u) ==
    Did(Did(Did(Did([s EXCEPT !.renderer.camera_controller = u.controller,
                              !.camera = get_cache(u.camera)],
                    "update_camera"), "update_view_proj"), "write_buffer"),
        "models_draw_pass.update")

update_no_poll(s) ==
    update_rest(s, update_camera(s.renderer.camera_controller, s.camera))

\* Renderer::update; the fps line it logs every five seconds is left out
update(s) ==
    update_rest(Did(s, "file_loader.poll"),
                update_camera(s.renderer.camera_controller, s.camera))

\* what surface.get_current_texture() can answer
SurfaceResults == {"Ok", "Lost", "Outdated", "OutOfMemory", "Other", "Timeout"}

\* Renderer::render with the answer of get_current_texture()
render(s, result) ==
    IF ~s.renderer.surface_configured THEN [state |-> s, ret |-> "Ok"]
    ELSE IF result # "Ok" THEN [state |-> s, ret |-> result]
    ELSE [state |-> Did(IF s.renderer.show_depth
                        THEN [s EXCEPT !.renderer.display_depth_draw_pass = TRUE]
                        ELSE s, "present"),
          ret |-> "Ok"]

\* the match on what render() returned
rendered(r) ==
    IF r.ret \in {"Lost", "Outdated"}
    THEN resize(r.state, r.state.renderer.config[1], r.state.renderer.config[2])
    ELSE IF r.ret \in {"OutOfMemory", "Other"}
    THEN Did([r.state EXCEPT !.renderer.exit = TRUE], "exit")
    ELSE r.state

\* the RedrawRequested arm of window_event
redraw(s, result) ==
    IF ~s.renderer.surface_configured THEN Did(s, "request_redraw")
    ELSE rendered(render(update(Did(s, "request_redraw")), result))

\* Renderer::window_event: the renderer and the camera after the call.
\* clear_color, which the CursorMoved arm writes and nothing reads, is left out.
window_event(renderer_, camera_, event, result) ==
    LET p == process_events(renderer_.camera_controller, event)
        s == [renderer |-> [renderer_ EXCEPT !.camera_controller = p.controller,
                                             !.resized = @ \/ event.kind = "Resized",
                                             !.did = <<>>],
              camera |-> [camera_ EXCEPT !.ret = None]]
    IN IF p.ret THEN s
       ELSE IF event.kind = "CloseRequested"
               \/ (event.kind = "KeyboardInput" /\ event.key = "Escape")
       THEN Did([s EXCEPT !.renderer.exit = TRUE], "exit")
       ELSE IF event.kind = "KeyboardInput"
       THEN IF event.key = "KeyO"
            THEN [s EXCEPT !.renderer.show_depth = (event.state = "Pressed")]
            ELSE s
       ELSE IF event.kind = "Resized"
       THEN resize([s EXCEPT !.renderer.surface_configured = TRUE],
                   event.size[1], event.size[2])
       ELSE IF event.kind = "RedrawRequested" THEN redraw(s, result)
       ELSE IF event.kind = "MouseInput"
       THEN IF event.button = "Left" /\ event.state = "Pressed"
            THEN Did(s, "swap_model") ELSE s
       ELSE IF event.kind = "Touch"
       THEN IF event.phase = "Started" THEN Did(s, "swap_model") ELSE s
       ELSE s

\* ------------------------------------------------------------------ state
NoProbe == [path |-> None, result |-> None]

\* FileLoader::new, lines 119-133
Fresh ==
    /\ inner = [file_id_map |-> {}, next_file_id |-> 0,
                endpoint_id_map |-> EmptyMap, next_endpoint_id |-> 0,
                ready_files |-> EmptyMap, pending_files |-> EmptyMap]
    /\ channel = <<>>
    /\ tasks = EmptyBag
    /\ sends = EmptyBag
    /\ chans = <<>>
    /\ endpoints = <<>>
    /\ panicked = FALSE
    /\ log = {}
    /\ probe = NoProbe
    /\ calls = [n \in Names |-> <<>>]
    /\ seen = <<>>
    /\ invoked = <<>>
    /\ snaps = <<>>
    /\ dispatched = [n \in Names |-> 0]
    /\ fetched = [n \in Names |-> {}]
    /\ failed = {}
    /\ processed = {}
    /\ polled_failed = {}
    /\ injected = <<>>
    /\ handles = {}
    /\ renderer = NewRenderer
    /\ camera = NewCamera

Init == Fresh /\ trace = {}

InitTrace == Fresh /\ trace = {"handles", "batch"}

\* each request records whether the completion was already queued and
\* whether the fetch had already failed
InitFair == Fresh /\ trace = {"race"}

\* Unknown / Pending / Ready, as the maps record it
StateOf(in, path) ==
    LET found == find_file_id(in, path) IN
    IF found = None THEN "unknown"
    ELSE IF found[1] \in DOMAIN in.ready_files THEN "ready"
    ELSE IF found[1] \in DOMAIN in.pending_files THEN "pending"
    ELSE "unknown"

RECURSIVE NumCalls(_)
NumCalls(S) ==
    IF S = {} THEN 0
    ELSE LET n == CHOOSE x \in S : TRUE IN Len(calls[n]) + NumCalls(S \ {n})

\* the closure of the next get_or_request call for path
Callback(path, sender) ==
    [cb |-> <<path, Len(calls[path]) + 1>>, sender |-> sender, reenter |-> None]

\* a completion message for n is waiting in the channel
InChannel(n) == \E k \in DOMAIN channel : channel[k][1] = n

\* the call's entry in the history
Record(w, path, callback) ==
    /\ calls' = [calls EXCEPT ![path] =
                    Append(@, [id |-> w.ret[1], sender |-> callback.sender,
                               state |-> StateOf(inner, path),
                               reenter |-> callback.reenter,
                               queued |-> "race" \in trace /\ InChannel(path),
                               after_failure |-> "race" \in trace /\ path \in failed,
                               spawned |-> w.dispatched[path] > dispatched[path]])]
    /\ seen' = IF calls[path] = <<>> THEN Append(seen, path) ELSE seen

\* loader.get_or_request(path, closure) through the loader or a clone of it:
\* a clone holds the same Rc, so every handle acts on the one `inner`
GetOrRequest(caller, path) ==
    /\ ~panicked
    /\ NumCalls(Names) < MaxCalls
    /\ LET callback == Callback(path, None)
           w == get_or_request(World, path, callback)
       IN  /\ SetWorld(w)
           /\ Record(w, path, callback)
    /\ probe' = NoProbe
    /\ handles' = IF "handles" \in trace THEN handles \cup {caller} ELSE handles
    /\ UNCHANGED <<chans, endpoints, fetched, failed, polled_failed, injected, trace,
                   renderer, camera>>

\* the methods of FileLoader a closure can call on a clone it captured
Methods == {"get_or_request", "try_get_file", "poll", "path_by_id", "make_endpoint"}

\* get_or_request with a closure that calls `method` on a clone of the loader
ReentrantRequest(path, method) ==
    /\ ~panicked
    /\ NumCalls(Names) < MaxCalls
    /\ LET callback == [Callback(path, None) EXCEPT !.reenter = Some(method)]
           w == get_or_request(World, path, callback)
       IN  /\ SetWorld(w)
           /\ Record(w, path, callback)
    /\ probe' = NoProbe
    /\ UNCHANGED <<chans, endpoints, fetched, failed, polled_failed, injected, handles,
                   trace,
                   renderer, camera>>

\* FileLoaderEndpoint::request, lines 266-294, on the e-th endpoint
EndpointRequest(e, path) ==
    /\ ~panicked
    /\ NumCalls(Names) < MaxCalls
    /\ e \in DOMAIN endpoints
    /\ endpoints[e].alive
    /\ IF endpoints[e].id \notin DOMAIN inner.endpoint_id_map
       THEN /\ panicked' = TRUE
            /\ UNCHANGED <<inner, channel, tasks, sends, log, invoked, snaps, dispatched,
                           processed, calls, seen>>
       ELSE LET sender == inner.endpoint_id_map[endpoints[e].id]
                callback == Callback(path, Some(sender))
                w == get_or_request(World, path, callback)
            IN  /\ SetWorld(w)
                /\ Record(w, path, callback)
    /\ probe' = NoProbe
    /\ UNCHANGED <<chans, endpoints, fetched, failed, polled_failed, injected, handles, trace,
                   renderer, camera>>

\* self.file_loader.poll(): what the call does to the loader
PollLoader ==
    /\ ~panicked
    /\ SetWorld(poll(World))
    /\ polled_failed' = polled_failed \cup failed
    /\ probe' = NoProbe
    /\ UNCHANGED <<chans, endpoints, calls, seen, fetched, failed, injected, handles,
                   trace>>

Poll == PollLoader /\ UNCHANGED <<renderer, camera>>

TryGetFile(path) ==
    /\ ~panicked
    /\ LET r == try_get_file_call(inner, path) IN
        /\ inner' = r.inner
        /\ probe' = [path |-> Some(path), result |-> r.result]
    /\ UNCHANGED <<channel, tasks, sends, chans, endpoints, panicked, log,
                   calls, seen, invoked, snaps, dispatched, fetched, failed,
                   processed, polled_failed, injected, handles, trace,
                   renderer, camera>>

MakeEndpointUpTo(max) ==
    /\ ~panicked
    /\ Len(endpoints) < max
    /\ LET r == make_endpoint(inner, Len(chans) + 1) IN
        /\ inner' = r.inner
        /\ endpoints' = Append(endpoints, r.endpoint)
    /\ chans' = Append(chans, [queue |-> <<>>, closed |-> FALSE])
    /\ probe' = NoProbe
    /\ UNCHANGED <<channel, tasks, sends, panicked, log, calls, seen,
                   invoked, snaps, dispatched, fetched, failed, processed,
                   polled_failed, injected, handles, trace,
                   renderer, camera>>

MakeEndpoint == MakeEndpointUpTo(MaxEndpoints)

\* the owner drops the endpoint: its receiver goes away and the channel closes
DropEndpoint(e) ==
    /\ ~panicked
    /\ e \in DOMAIN endpoints
    /\ endpoints[e].alive
    /\ endpoints' = [endpoints EXCEPT ![e].alive = FALSE]
    /\ chans' = [chans EXCEPT ![endpoints[e].receiver].closed = TRUE]
    /\ probe' = NoProbe
    /\ UNCHANGED <<inner, channel, tasks, sends, panicked, log, calls, seen,
                   invoked, snaps, dispatched, fetched, failed, processed,
                   polled_failed, injected, handles, trace,
                   renderer, camera>>

\* a fetch task runs to its end: load_binary returned Ok(data) or Err
FetchDone(path, result) ==
    /\ BagIn(path, tasks)
    /\ LET r == loader_fn(path, result) IN
        /\ channel' = channel \o r.send
        /\ log' = log \cup r.log
        /\ fetched' = [fetched EXCEPT ![path] = @ \cup {r.send[i][2] : i \in DOMAIN r.send}]
    /\ tasks' = tasks (-) SetToBag({path})
    /\ failed' = IF result.ok THEN failed ELSE failed \cup {path}
    /\ UNCHANGED <<inner, sends, chans, endpoints, panicked, probe, calls,
                   seen, invoked, snaps, dispatched, processed, polled_failed,
                   injected, handles, trace,
                   renderer, camera>>

FetchOk(path, data) == FetchDone(path, [ok |-> TRUE, data |-> data])

FetchErr(path) == FetchDone(path, [ok |-> FALSE, data |-> <<>>])

\* the result of send is unwrapped: a closed channel panics
SendDone_unwrap(t) ==
    /\ BagIn(t, sends)
    /\ sends' = sends (-) SetToBag({t})
    /\ IF chans[t.chan].closed
       THEN /\ panicked' = TRUE
            /\ UNCHANGED chans
       ELSE /\ chans' = [chans EXCEPT ![t.chan].queue = Append(@, t.file)]
            /\ UNCHANGED panicked
    /\ UNCHANGED <<inner, channel, tasks, endpoints, log, probe, calls, seen, invoked,
                   snaps, dispatched, fetched, failed, processed, polled_failed, injected,
                   handles, trace,
                   renderer, camera>>

\* an endpoint delivery task runs: sender.send(x).await, lines 277-284
SendDone(t) ==
    /\ BagIn(t, sends)
    /\ sends' = sends (-) SetToBag({t})
    /\ IF chans[t.chan].closed
       THEN /\ log' = log \cup {<<"send_failed", path_by_id(inner, t.file.id)[1]>>}
            /\ UNCHANGED chans
       ELSE /\ chans' = [chans EXCEPT ![t.chan].queue = Append(@, t.file)]
            /\ UNCHANGED log
    /\ UNCHANGED <<inner, channel, tasks, endpoints, panicked, probe, calls,
                   seen, invoked, snaps, dispatched, fetched, failed, processed,
                   polled_failed, injected, handles, trace,
                   renderer, camera>>

DeliveryTask == \E t \in BagToSet(sends) : SendDone(t)

\* Something that holds a clone of inner.sender (line 77) puts a completion
\* message on the channel that no fetch task of the loader sent.
InjectCompletion(path, data) ==
    /\ Len(injected) < MaxInjected
    /\ channel' = Append(channel, <<path, data>>)
    /\ injected' = Append(injected, <<path, data>>)
    /\ UNCHANGED <<inner, tasks, sends, chans, endpoints, panicked, log, probe, calls,
                   seen, invoked, snaps, dispatched, fetched, failed, processed,
                   polled_failed, handles, trace,
                   renderer, camera>>

Next ==
    \/ \E c \in Callers, p \in Names : GetOrRequest(c, p)
    \/ \E e \in 1..MaxEndpoints, p \in Names : EndpointRequest(e, p)
    \/ Poll
    \/ \E p \in Names : TryGetFile(p)
    \/ MakeEndpoint
    \/ \E p \in Names, d \in Datas : FetchOk(p, d)
    \/ \E p \in Names : FetchErr(p)
    \/ DeliveryTask

Spec == Init /\ [][Next]_vars

\* the methods that change the loader, and the tasks
NextCore ==
    \/ \E c \in Callers, p \in Names : GetOrRequest(c, p)
    \/ \E e \in 1..MaxEndpoints, p \in Names : EndpointRequest(e, p)
    \/ Poll
    \/ MakeEndpoint
    \/ \E p \in Names, d \in Datas : FetchOk(p, d)
    \/ \E p \in Names : FetchErr(p)
    \/ DeliveryTask

\* a traced run: the handle of each request and the batches of poll() are kept
SpecTrace == InitTrace /\ [][NextCore]_vars

\* a poll() call would change the state: ENABLED <<Poll>>_vars written out
\* for the runs of NextCore, where probe stays NoProbe
PollHasWork == ~panicked /\ (channel # <<>> \/ ~(failed \subseteq polled_failed))

\* poll() keeps being called (once per frame), so a queued completion is
\* received: weak fairness of Poll, WF_vars(Poll), with its ENABLED written
\* out as PollHasWork
PollIsFair == []<>(~PollHasWork) \/ []<><<Poll>>_vars

SpecFair == InitFair /\ [][NextCore]_vars /\ PollIsFair

\* the loader without endpoints, with completion messages from elsewhere
NextInject ==
    \/ \E c \in Callers, p \in Names : GetOrRequest(c, p)
    \/ Poll
    \/ \E p \in Names : TryGetFile(p)
    \/ \E p \in Names, d \in Datas : FetchOk(p, d)
    \/ \E p \in Names : FetchErr(p)
    \/ \E p \in Names, d \in Datas : InjectCompletion(p, d)

SpecInject == Init /\ [][NextInject]_vars

\* poll() keeps being called and the executor runs every spawned delivery task
SpecDeliver == Init /\ [][NextCore]_vars /\ PollIsFair /\ WF_vars(DeliveryTask)

\* the loader with closures that call back into it
NextReenter ==
    \/ \E c \in Callers, p \in Names : GetOrRequest(c, p)
    \/ \E p \in Names, m \in Methods : ReentrantRequest(p, m)
    \/ Poll
    \/ \E p \in Names, d \in Datas : FetchOk(p, d)
    \/ \E p \in Names : FetchErr(p)

SpecReenter == Init /\ [][NextReenter]_vars

\* one endpoint more than elsewhere, so that two endpoints can be told apart
NextEndpoints ==
    \/ \E c \in Callers, p \in Names : GetOrRequest(c, p)
    \/ \E e \in 1..(MaxEndpoints + 1), p \in Names : EndpointRequest(e, p)
    \/ Poll
    \/ MakeEndpointUpTo(MaxEndpoints + 1)
    \/ \E p \in Names, d \in Datas : FetchOk(p, d)
    \/ \E p \in Names : FetchErr(p)
    \/ DeliveryTask

SpecEndpoints == Init /\ [][NextEndpoints]_vars

\* the loader used through endpoints whose owners may also drop them
NextDrop ==
    \/ \E e \in 1..MaxEndpoints, p \in Names : EndpointRequest(e, p)
    \/ Poll
    \/ MakeEndpoint
    \/ \E p \in Names, d \in Datas : FetchOk(p, d)
    \/ \E p \in Names : FetchErr(p)
    \/ DeliveryTask
    \/ \E e \in 1..MaxEndpoints : DropEndpoint(e)

SpecDrop == Init /\ [][NextDrop]_vars

\* ----------------------------------------------------- the Camera's callers
loader_vars == <<inner, channel, tasks, sends, chans, endpoints, panicked, log,
                 probe, calls, seen, invoked, snaps, dispatched, fetched, failed,
                 processed, polled_failed, injected, handles, trace>>

\* arguments the callers pass to the setters
Eyes == {<<0, 0, 0>>, <<1, 0, 0>>, <<NaN, 0, 0>>}

Rotators == [yaw : {90 * k : k \in 0..MaxTurns}, pitch : {0, 90}, roll : {0}]

Aspects == {1, 2}

SetEye(eye) == camera' = set_eye(camera, eye) /\ UNCHANGED <<loader_vars, renderer>>

SetRotator(rotator) ==
    camera' = set_rotator(camera, rotator) /\ UNCHANGED <<loader_vars, renderer>>

SetAspect(a) ==
    camera' = set_aspect(camera, a) /\ UNCHANGED <<loader_vars, renderer>>

\* clear_cache is public; a setter resets the history of the latest getter, and
\* so does this call
ClearCache ==
    camera' = clear_cache([camera EXCEPT !.ret = None])
    /\ UNCHANGED <<loader_vars, renderer>>

Forward == camera' = forward(camera) /\ UNCHANGED <<loader_vars, renderer>>

Right == camera' = right(camera) /\ UNCHANGED <<loader_vars, renderer>>

Up == camera' = up(camera) /\ UNCHANGED <<loader_vars, renderer>>

NextCamera ==
    \/ \E eye \in Eyes : SetEye(eye)
    \/ \E rotator \in Rotators : SetRotator(rotator)
    \/ \E a \in Aspects : SetAspect(a)
    \/ ClearCache
    \/ Forward
    \/ Right
    \/ Up

SpecCamera == Init /\ [][NextCamera]_vars

\* ------------------------------------------------- the Renderer's events
Keys == {"KeyW", "KeyO", "Escape"}

ElementStates == {"Pressed", "Released"}

Buttons == {"Left", "Right"}

Phases == {"Started", "Moved", "Ended", "Cancelled"}

Sizes == {<<0, 0>>, <<2, 1>>}

Positions == {<<0, 0>>}

WindowEvents ==
    {CloseRequested, RedrawRequested}
    \cup {KeyboardInput(k, st) : k \in Keys, st \in ElementStates}
    \cup {Resized(sz) : sz \in Sizes}
    \cup {CursorMoved(pos) : pos \in Positions}
    \cup {MouseInput(b, st) : b \in Buttons, st \in ElementStates}
    \cup {Touch(ph, pos) : ph \in Phases, pos \in Positions}

\* the files the renderer's draw pass asks its loader for
ModelFiles == {"a.png"}

\* the camera stays within the bounds of the model
InBounds(cam) ==
    /\ \A i \in 1..3 : cam.eye[i] \in (0 - MaxEye)..MaxEye
    /\ cam.rotator.yaw \in (0 - 90 * MaxTurns)..(90 * MaxTurns)

\* winit hands the renderer an event; result is what get_current_texture()
\* answers if the handler renders. After event_loop.exit() no event arrives.
\* The one call the handler makes into the loader is poll(), from update().
WindowEvent(event, result) ==
    /\ ~renderer.exit
    /\ \E s \in {window_event(renderer, camera, event, result)} :
       /\ InBounds(s.camera)
       /\ renderer' = s.renderer
       /\ camera' = s.camera
       /\ IF \E k \in DOMAIN s.renderer.did : s.renderer.did[k] = "file_loader.poll"
          THEN PollLoader
          ELSE UNCHANGED loader_vars

\* the renderer with the loader it owns: the draw pass requests files, the
\* fetch tasks complete, and only the frames poll
NextRenderer ==
    \/ \E e \in WindowEvents \ {RedrawRequested} : WindowEvent(e, "Ok")
    \/ \E r \in SurfaceResults : WindowEvent(RedrawRequested, r)
    \/ \E p \in ModelFiles : GetOrRequest("loader", p)
    \/ \E p \in ModelFiles, d \in Datas : FetchOk(p, d)
    \/ \E p \in ModelFiles : FetchErr(p)

SpecRenderer == Init /\ [][NextRenderer]_vars

\* ------------------------------------------------------------- properties
\* helpers over the history
InvokedCount(c) == Cardinality({k \in DOMAIN invoked : invoked[k].cb = c})

\* the call that passed the callback with token c
CallOf(c) == calls[c[1]][c[2]]

Requested == {n \in Names : calls[n] # <<>>}

\* C1: at most one fetch task is ever spawned for a name; it is spawned by
\* the first request for the name (the one that finds it unknown) and by no
\* later request, whether that one finds the name Pending or Ready.
C1_OneFetchPerName ==
    \A n \in Names :
        /\ dispatched[n] <= 1
        /\ dispatched[n] = 1 <=> n \in Requested
        /\ \A i \in DOMAIN calls[n] :
              /\ calls[n][i].spawned <=> i = 1
              /\ calls[n][i].spawned <=> calls[n][i].state = "unknown"

C1_Witness ==
    \E n \in Names : \E j, k \in DOMAIN calls[n] :
        /\ calls[n][1].spawned
        /\ calls[n][j].state = "pending" /\ calls[n][j].sender # None
        /\ calls[n][k].state = "ready"
        /\ dispatched[n] = 1

\* C2: once poll() has processed the completion of a name, every callback
\* passed for that name has been invoked exactly once; no callback is ever
\* invoked twice; all callbacks of a name get the same FileData, and its bytes
\* are the bytes the fetch task sent.
C2_CallbacksExactlyOnce ==
    /\ \A n \in Names : \A i \in DOMAIN calls[n] :
          /\ InvokedCount(<<n, i>>) <= 1
          /\ n \in processed => InvokedCount(<<n, i>>) = 1
    /\ \A k \in DOMAIN invoked :
          /\ invoked[k].file.id = CallOf(invoked[k].cb).id
          /\ fetched[invoked[k].cb[1]] = {invoked[k].file.data}
    /\ \A k, l \in DOMAIN invoked :
          invoked[k].cb[1] = invoked[l].cb[1] => invoked[k].file = invoked[l].file

C2_Witness ==
    \E n \in Names :
        /\ n \in processed
        /\ Len(calls[n]) >= 3
        /\ calls[n][3].state = "ready"
        /\ \A i \in DOMAIN calls[n] : InvokedCount(<<n, i>>) = 1
        /\ fetched[n] = {<<7>>}

\* C3: the callbacks registered for a name before it became Ready are invoked
\* by poll() in the order of their get_or_request calls.
C3_WaitersInRegistrationOrder ==
    \A k, l \in DOMAIN invoked :
        LET ck == invoked[k].cb
            cl == invoked[l].cb
        IN  (/\ k < l
             /\ ck[1] = cl[1]
             /\ CallOf(ck).state # "ready"
             /\ CallOf(cl).state # "ready") => ck[2] < cl[2]

C3_Witness ==
    \E n \in Names :
        /\ Len(invoked) = 3
        /\ \A k \in 1..3 : invoked[k].cb = <<n, k>>
        /\ \A i \in 1..3 : calls[n][i].state # "ready"

\* C4: a get_or_request for a name that is Ready invokes its callback once,
\* with the cached FileData, inside the call; it spawns no fetch and leaves
\* the id map, the pending map and the ready map as they were.
C4_ReadyRequest ==
    \A n \in Names :
        Len(calls'[n]) = Len(calls[n]) + 1 /\ StateOf(inner, n) = "ready"
            => LET i == Len(calls'[n]) IN
               /\ inner' = inner
               /\ invoked' = Append(invoked, [cb |-> <<n, i>>,
                                    file |-> inner.ready_files[calls'[n][i].id],
                                    reentry |-> "none"])
               /\ tasks' = tasks
               /\ dispatched' = dispatched
               /\ channel' = channel
               /\ ~calls'[n][i].spawned

C4_ReadyRequestIsSynchronous == [][C4_ReadyRequest]_vars

C4_Witness ==
    \E n \in Names :
        /\ calls[n] # <<>>
        /\ calls[n][Len(calls[n])].state = "ready"
        /\ invoked # <<>>
        /\ invoked[Len(invoked)].cb = <<n, Len(calls[n])>>
        /\ channel = <<>>

\* C5: try_get_file(name) is None until poll() has received the completion
\* message of name (never requested, Pending, or message still queued), and
\* from then on it is the FileData holding the bytes the fetch sent.
C5_TryGetFile ==
    \A n \in Names :
        /\ try_get_file(inner, n) =
              IF n \in processed
              THEN Some([id |-> calls[n][1].id, data |-> CHOOSE d \in fetched[n] : TRUE])
              ELSE None
        /\ probe.path = Some(n) => probe.result = try_get_file(inner, n)

C5_Witness ==
    \E n, m \in Names :
        /\ n \in processed /\ try_get_file(inner, n) # None
        /\ InChannel(m) /\ probe = [path |-> Some(m), result |-> None]

\* C6: the name-to-id map is a bijection between the names requested so far
\* and the ids handed out; the same name always gets the same id and two
\* different names never get the same id.
C6_IdsBijective ==
    LET m == inner.file_id_map
    IN  /\ \A p, q \in m : (p[1] = q[1] \/ p[2] = q[2]) => p = q
        /\ {p[1] : p \in m} = Requested
        /\ {p[2] : p \in m} = 0..(inner.next_file_id - 1)
        /\ \A n \in Requested : \A i \in DOMAIN calls[n] : <<n, calls[n][i].id>> \in m
        /\ \A n, o \in Requested : \A i \in DOMAIN calls[n], j \in DOMAIN calls[o] :
              n = o <=> calls[n][i].id = calls[o][j].id

C6_Witness ==
    /\ Cardinality(inner.file_id_map) = 2
    /\ \E n \in Names : \E j \in DOMAIN calls[n] :
          /\ calls[n][j].id = calls[n][1].id
          /\ calls[n][j].state = "ready"

\* C7: ids are 0, 1, 2, ... in order of first sight, and path_by_id gives
\* back the name of every id get_or_request returned, whether or not the
\* fetch succeeded; the first name requested is found under id 0.
C7_PathByIdInverse ==
    /\ \A k \in DOMAIN seen :
          /\ path_by_id(inner, k - 1) = Some(seen[k])
          /\ \A i \in DOMAIN calls[seen[k]] :
                /\ calls[seen[k]][i].id = k - 1
                /\ path_by_id(inner, calls[seen[k]][i].id) = Some(seen[k])
    /\ inner.next_file_id = Len(seen)
    /\ path_by_id(inner, inner.next_file_id) = None

C7_Witness ==
    /\ Len(seen) = 2
    /\ seen[2] \in polled_failed
    /\ seen[1] \in processed
    /\ path_by_id(inner, 1) = Some(seen[2])
    /\ path_by_id(inner, 0) = Some(seen[1])

\* C8: the pending map and the ready map have no id in common, and every id
\* of the name-to-id map is a key of one of them.
C8_ExactlyOneState ==
    /\ DOMAIN inner.pending_files \cap DOMAIN inner.ready_files = {}
    /\ \A p \in inner.file_id_map :
          p[2] \in DOMAIN inner.pending_files \cup DOMAIN inner.ready_files

C8_Witness ==
    /\ DOMAIN inner.pending_files # {}
    /\ DOMAIN inner.ready_files # {}
    /\ Cardinality(inner.file_id_map) = 2

\* C9: a Ready name stays Ready with the same record in the next state, and
\* a Pending name is Pending or Ready in the next state.
C9_Step ==
    \A n \in Names :
        /\ StateOf(inner, n) = "ready" =>
              /\ StateOf(inner', n) = "ready"
              /\ try_get_file(inner', n) = try_get_file(inner, n)
        /\ StateOf(inner, n) = "pending" => StateOf(inner', n) \in {"pending", "ready"}

C9_StateOnlyMovesForward == [][C9_Step]_vars

C9_Witness ==
    \E n, m \in Names :
        /\ StateOf(inner, n) = "ready"
        /\ StateOf(inner, m) = "pending"
        /\ \E i \in DOMAIN calls[n] : calls[n][i].state = "ready"
        /\ m \in polled_failed

\* C10: a failed fetch sends nothing; whatever is polled afterwards the name
\* is Pending, try_get_file is None, none of its callbacks has run, and no
\* method has panicked.
C10_FailedFetchStaysPending ==
    \A n \in failed :
        /\ ~InChannel(n)
        /\ fetched[n] = {}
        /\ n \notin processed
        /\ StateOf(inner, n) = "pending"
        /\ try_get_file(inner, n) = None
        /\ \A i \in DOMAIN calls[n] : InvokedCount(<<n, i>>) = 0
        /\ ~panicked

C10_Witness ==
    \E n \in polled_failed :
        /\ Len(calls[n]) >= 2
        /\ probe = [path |-> Some(n), result |-> None]
        /\ processed # {}


\* C11: a completion message for a name that was never requested (so has no
\* Pending record) is dropped by poll(): the name gets no Ready record,
\* try_get_file stays None and nothing panics.
C11_UnexpectedCompletionDropped ==
    \A n \in Names :
        calls[n] = <<>> =>
            /\ StateOf(inner, n) # "ready"
            /\ try_get_file(inner, n) = None
            /\ ~panicked

\* C12: the Ready record of a name never changes; a completion message for a
\* name that is already Ready runs no callback; every callback run for a Ready
\* name gets the stored record.
C12_Step ==
    \A n \in Names :
        StateOf(inner, n) = "ready" =>
            /\ try_get_file(inner', n) = try_get_file(inner, n)
            /\ \A k \in DOMAIN invoked' :
                  (k > Len(invoked) /\ invoked'[k].cb[1] = n) =>
                      /\ Len(calls'[n]) = Len(calls[n]) + 1
                      /\ Some(invoked'[k].file) = try_get_file(inner, n)

C12_ReadyDataNeverReplaced == [][C12_Step]_vars

C12_Witness ==
    \E n \in Names :
        /\ <<"already_cached", n>> \in log
        /\ fetched[n] # {}
        /\ \E k \in DOMAIN injected : injected[k][1] = n /\ injected[k][2] \notin fetched[n]
        /\ channel = <<>>
        /\ \E i \in DOMAIN calls[n] : calls[n][i].state = "ready"


\* messages on an endpoint channel, and delivery tasks still running, for an id
QueuedFor(ch, id) == {k \in DOMAIN chans[ch].queue : chans[ch].queue[k].id = id}

InFlightFor(ch, file) == CopiesIn([chan |-> ch, file |-> file], sends)

\* the requests for n made through the endpoint closure that sends on ch
EndpointRequests(ch, n) == {i \in DOMAIN calls[n] : calls[n][i].sender = Some(ch)}

\* the endpoint behind ch asked for n once, and n was not Ready then
RequestedOnceWaiting(ch, n) ==
    /\ Cardinality(EndpointRequests(ch, n)) = 1
    /\ \A i \in EndpointRequests(ch, n) : calls[n][i].state # "ready"

\* the FileData a successful fetch of n produces
FetchedFile(n) == [id |-> calls[n][1].id, data |-> CHOOSE d \in fetched[n] : TRUE]

\* C13 as stated: once an endpoint has requested a name, the fetch has
\* succeeded and poll() has processed the completion, the endpoint's receiver
\* holds exactly one message for the name, carrying its FileId and bytes.
C13_MessageThereAfterPoll ==
    \A ch \in DOMAIN chans, n \in Names :
        (RequestedOnceWaiting(ch, n) /\ n \in processed) =>
            /\ Cardinality(QueuedFor(ch, FetchedFile(n).id)) = 1
            /\ \A k \in QueuedFor(ch, FetchedFile(n).id) :
                  chans[ch].queue[k] = FetchedFile(n)

\* C13 amended: after that poll() the one message is either still in the
\* delivery task the callback spawned or on the receiver; once the task has
\* run the receiver holds exactly one message for the name, with its FileId
\* and bytes; before the poll() neither exists.
C13_MessageThereAfterDelivery ==
    \A ch \in DOMAIN chans, n \in Names :
        RequestedOnceWaiting(ch, n) =>
            IF n \in processed
            THEN /\ Cardinality(QueuedFor(ch, FetchedFile(n).id))
                        + InFlightFor(ch, FetchedFile(n)) = 1
                 /\ \A k \in QueuedFor(ch, FetchedFile(n).id) :
                       chans[ch].queue[k] = FetchedFile(n)
                 /\ \A t \in BagToSet(sends) :
                       t.file.id = FetchedFile(n).id => t.file = FetchedFile(n)
            ELSE /\ \A k \in DOMAIN chans[ch].queue :
                       chans[ch].queue[k].id # calls[n][1].id
                 /\ \A t \in BagToSet(sends) : t.file.id # calls[n][1].id

C13_Witness ==
    \E ch \in DOMAIN chans, n \in Names :
        /\ RequestedOnceWaiting(ch, n)
        /\ n \in processed
        /\ sends = EmptyBag
        /\ chans[ch].queue = <<FetchedFile(n)>>
        /\ FetchedFile(n).data = <<7>>

\* C14: try_get_file changes nothing. A try_get_file step leaves the id map,
\* the next id, the pending map, the ready map and the completion channel as
\* they were (an unknown name gets no id), and what it returns is what the
\* next call on the same name returns.
C14_Step ==
    (probe' # NoProbe /\ probe' # probe) =>
        /\ inner'.file_id_map = inner.file_id_map
        /\ inner'.next_file_id = inner.next_file_id
        /\ inner'.pending_files = inner.pending_files
        /\ inner'.ready_files = inner.ready_files
        /\ inner' = inner
        /\ channel' = channel
        /\ probe'.result = try_get_file(inner, probe'.path[1])
        /\ probe'.result = try_get_file(inner', probe'.path[1])

C14_TryGetFileChangesNothing == [][C14_Step]_vars

C14_Witness ==
    /\ probe # NoProbe
    /\ probe.result = None
    /\ calls[probe.path[1]] = <<>>
    /\ find_file_id(inner, probe.path[1]) = None
    /\ \E n \in Names : StateOf(inner, n) = "ready"

\* C15: get_or_request and poll never wait for a fetch. A request for a name
\* that is not Ready returns with the name Pending, no callback run and the
\* fetch task still to finish; poll() takes what the channel holds and
\* finishes no fetch task; on an empty channel it changes nothing of the
\* loader and runs no callback.
C15_Step ==
    /\ \A n \in Names :
          (Len(calls'[n]) > Len(calls[n]) /\ StateOf(inner, n) # "ready") =>
              /\ StateOf(inner', n) = "pending"
              /\ invoked' = invoked
              /\ sends' = sends
              /\ channel' = channel
              /\ tasks' = IF StateOf(inner, n) = "pending"
                          THEN tasks ELSE tasks (+) SetToBag({n})
    /\ Poll =>
          /\ tasks' = tasks
          /\ channel' = <<>>
          /\ channel = <<>> =>
                /\ inner' = inner
                /\ invoked' = invoked
                /\ sends' = sends
                /\ log' = log
                /\ processed' = processed

C15_NeverWaitsForFetch == [][C15_Step]_vars

C15_Witness ==
    \E n \in Names :
        /\ Len(calls[n]) = 2
        /\ calls[n][1].state = "unknown"
        /\ calls[n][2].state = "pending"
        /\ StateOf(inner, n) = "pending"
        /\ BagIn(n, tasks)
        /\ polled_failed # {}
        /\ processed = {}
        /\ channel = <<>>
        /\ invoked = <<>>

\* C16: deduplication looks at the name only. Whoever asks (the loader, a
\* clone of it, an endpoint), a requested name has exactly one fetch
\* dispatched; once poll() has processed its completion every callback passed
\* for it has run once and every endpoint is sent the file once per request
\* it made.
C16_DedupByNameOnly ==
    \A n \in Names :
        /\ dispatched[n] = IF calls[n] = <<>> THEN 0 ELSE 1
        /\ n \in processed =>
              /\ \A i \in DOMAIN calls[n] : InvokedCount(<<n, i>>) = 1
              /\ \A ch \in DOMAIN chans :
                    Cardinality(QueuedFor(ch, FetchedFile(n).id))
                        + InFlightFor(ch, FetchedFile(n))
                      = Cardinality(EndpointRequests(ch, n))

C16_Witness ==
    \E n \in Names :
        /\ handles = {"loader", "clone"}
        /\ Len(calls[n]) = 3
        /\ \A i \in DOMAIN calls[n] : calls[n][i].state # "ready"
        /\ calls[n][1].sender = None
        /\ calls[n][2].sender # None
        /\ calls[n][3].sender = None
        /\ n \in processed
        /\ dispatched[n] = 1
        /\ \A i \in 1..3 : InvokedCount(<<n, i>>) = 1

\* the name a FileId stands for
NameOf(id) == path_by_id(inner, id)[1]

\* C17: every endpoint has an EndpointId no other endpoint has and a channel
\* of its own, registered under that id; a file travels to (delivery task) or
\* sits on (queue) an endpoint's channel only if that endpoint requested the
\* file's name, and at most once per request.
C17_EndpointsAreSeparate ==
    /\ \A e1, e2 \in DOMAIN endpoints :
          e1 # e2 => /\ endpoints[e1].id # endpoints[e2].id
                     /\ endpoints[e1].receiver # endpoints[e2].receiver
    /\ \A e \in DOMAIN endpoints :
          /\ endpoints[e].id \in DOMAIN inner.endpoint_id_map
          /\ inner.endpoint_id_map[endpoints[e].id] = endpoints[e].receiver
          /\ endpoints[e].id < inner.next_endpoint_id
    /\ \A ch \in DOMAIN chans :
          /\ \A k \in DOMAIN chans[ch].queue :
                Cardinality(QueuedFor(ch, chans[ch].queue[k].id))
                    <= Cardinality(EndpointRequests(ch, NameOf(chans[ch].queue[k].id)))
          /\ \A t \in BagToSet(sends) :
                t.chan = ch => EndpointRequests(ch, NameOf(t.file.id)) # {}

C17_Witness ==
    /\ Len(endpoints) >= 2
    /\ \E n, m \in Names :
          /\ n # m
          /\ EndpointRequests(endpoints[1].receiver, n) # {}
          /\ EndpointRequests(endpoints[1].receiver, m) = {}
          /\ EndpointRequests(endpoints[2].receiver, m) # {}
          /\ EndpointRequests(endpoints[2].receiver, n) = {}
          /\ {n, m} \subseteq processed
          /\ chans[endpoints[1].receiver].queue = <<FetchedFile(n)>>
          /\ chans[endpoints[2].receiver].queue = <<FetchedFile(m)>>

\* C18: no waiter is lost to the race between completion and registration.
\* With poll() called again and again, once the fetch of a name has succeeded
\* every callback passed for the name, whenever it was passed, ends up
\* invoked exactly once.
C18_NoWaiterLost ==
    \A n \in Names :
        (fetched[n] # {}) ~> (\A i \in DOMAIN calls[n] : InvokedCount(<<n, i>>) = 1)

\* one name, three requests: before the fetch ended, while the completion
\* message was waiting in the channel, and after the poll() that received it
C18_Witness ==
    \E n \in Names :
        /\ Len(calls[n]) = 3
        /\ calls[n][1].state = "unknown" /\ ~calls[n][1].queued
        /\ calls[n][2].state = "pending" /\ calls[n][2].queued
        /\ calls[n][3].state = "ready"
        /\ \A i \in 1..3 : InvokedCount(<<n, i>>) = 1

\* where the completion message of n stands in the channel
PosInChannel(n) == CHOOSE k \in DOMAIN channel : channel[k][1] = n

\* C19: one poll() processes every message the channel held when it started,
\* in channel order. After the call the channel is empty and every queued
\* name is processed; each callback it ran saw exactly the later messages
\* still unreceived, none of them Ready yet; callbacks of an earlier message
\* come before those of a later one.
C19_Step ==
    (Poll /\ channel # <<>>) =>
        /\ channel' = <<>>
        /\ \A k \in DOMAIN channel : channel[k][1] \in processed'
        /\ processed' = processed \cup {channel[k][1] : k \in DOMAIN channel}
        /\ \A k \in DOMAIN invoked' :
              k > Len(invoked) =>
                  /\ InChannel(invoked'[k].cb[1])
                  /\ snaps'[k].left = Len(channel) - PosInChannel(invoked'[k].cb[1])
                  /\ ~snaps'[k].queued_ready
        /\ \A k1, k2 \in DOMAIN invoked' :
              (Len(invoked) < k1 /\ k1 < k2) =>
                  PosInChannel(invoked'[k1].cb[1]) <= PosInChannel(invoked'[k2].cb[1])

C19_PollDrainsInChannelOrder == [][C19_Step]_vars

\* two names completed in the order opposite to their requests and were
\* received by one poll()
C19_Witness ==
    /\ Len(seen) = 2
    /\ channel = <<>>
    /\ \E k1, k2 \in DOMAIN invoked :
          /\ k1 < k2
          /\ invoked[k1].cb[1] = seen[2]
          /\ invoked[k2].cb[1] = seen[1]
          /\ CallOf(invoked[k1].cb).state # "ready"
          /\ CallOf(invoked[k2].cb).state # "ready"
          /\ snaps[k1].left = 1
          /\ snaps[k2].left = 0

\* the callbacks that poll() ran: those passed while the name was not Ready
RanFromPoll == {k \in DOMAIN invoked : CallOf(invoked[k].cb).state # "ready"}

\* C20: in poll() the record is Ready before its waiters run. Each callback
\* run from poll() found, when it was called, the Ready record of its name
\* holding the fetched data it was handed and no Pending record; a processed
\* name has no Pending record (no waiter list) left.
C20_ReadyBeforeWaiters ==
    /\ \A k \in RanFromPoll :
          /\ snaps[k].ready
          /\ ~snaps[k].pending
          /\ invoked[k].file.data \in fetched[invoked[k].cb[1]]
    /\ \A n \in processed :
          /\ find_file_id(inner, n) # None
          /\ find_file_id(inner, n)[1] \notin DOMAIN inner.pending_files
          /\ StateOf(inner, n) = "ready"

C20_Witness ==
    \E n \in Names :
        /\ n \in processed
        /\ Len(calls[n]) = 2
        /\ Cardinality({k \in RanFromPoll : invoked[k].cb[1] = n}) = 2
        /\ \A k \in RanFromPoll : invoked[k].cb[1] = n => invoked[k].file.data = <<7>>
        /\ try_get_file(inner, n) = Some([id |-> calls[n][1].id, data |-> <<7>>])

\* C21: a failed fetch is never retried. A request for a name whose fetch
\* has failed appends its callback to the Pending record and dispatches
\* nothing; the name stays Pending and no callback passed for it, before or
\* after the failure, is ever invoked.
C21_Step ==
    \A n \in failed :
        LET id == find_file_id(inner, n)[1] IN
        /\ Len(calls'[n]) > Len(calls[n]) =>
              /\ dispatched' = dispatched
              /\ tasks' = tasks
              /\ channel' = channel
              /\ invoked' = invoked
              /\ Len(inner'.pending_files[id]) = Len(inner.pending_files[id]) + 1
              /\ inner'.pending_files[id][Len(inner'.pending_files[id])].cb
                    = <<n, Len(calls'[n])>>
        /\ StateOf(inner', n) = "pending"
        /\ dispatched'[n] = 1
        /\ \A k \in DOMAIN invoked' : invoked'[k].cb[1] # n

C21_FailedFetchNeverRetried == [][C21_Step]_vars

C21_Witness ==
    \E n \in polled_failed :
        /\ Len(calls[n]) >= 2
        /\ calls[n][Len(calls[n])].after_failure
        /\ ~calls[n][1].after_failure
        /\ dispatched[n] = 1
        /\ tasks = EmptyBag
        /\ Len(inner.pending_files[calls[n][1].id]) = Len(calls[n])
        /\ processed # {}

\* C22: a dispatched fetch fills the cache even when its requester is gone.
\* Whether or not the requesting endpoints are still alive, a processed name
\* is Ready and try_get_file returns the fetched bytes; a delivery to a
\* closed endpoint channel changes nothing of the loader and does not panic;
\* a poll() changes the state of no name whose completion it did not receive.
C22_Step ==
    /\ ~panicked'
    /\ \A n \in processed' :
          /\ StateOf(inner', n) = "ready"
          /\ try_get_file(inner', n) # None
          /\ try_get_file(inner', n)[1].data \in fetched'[n]
    /\ DeliveryTask => /\ inner' = inner
                       /\ invoked' = invoked
                       /\ channel' = channel
    /\ \A m \in Names :
          (Poll /\ ~InChannel(m)) =>
              /\ StateOf(inner', m) = StateOf(inner, m)
              /\ try_get_file(inner', m) = try_get_file(inner, m)

C22_FetchOutlivesRequester == [][C22_Step]_vars

\* the only requester of n was dropped, its delivery failed, n is Ready;
\* another name is still Pending
C22_Witness ==
    \E n, m \in Names :
        /\ Len(calls[n]) = 1
        /\ calls[n][1].sender # None
        /\ chans[calls[n][1].sender[1]].closed
        /\ chans[calls[n][1].sender[1]].queue = <<>>
        /\ <<"send_failed", n>> \in log
        /\ sends = EmptyBag
        /\ try_get_file(inner, n) = Some([id |-> calls[n][1].id, data |-> <<7>>])
        /\ StateOf(inner, m) = "pending"
        /\ ~panicked

\* what the two error branches of poll() write to the log
PollErrors == {<<kind, n>> : kind \in {"unexpected", "already_cached", "very_wrong"},
                             n \in Names}

\* C23: with completions coming only from the loader's own fetch tasks,
\* poll() never takes an error branch: every message it receives is for a
\* name that is Pending (so not Ready), no two queued messages are for the
\* same name, and nothing is logged.
C23_Step ==
    /\ log' \cap PollErrors = {}
    /\ Poll =>
          /\ \A k \in DOMAIN channel : StateOf(inner, channel[k][1]) = "pending"
          /\ \A k1, k2 \in DOMAIN channel : channel[k1][1] = channel[k2][1] => k1 = k2
          /\ log' = log

C23_PollErrorBranchesUnreachable == [][C23_Step]_vars

C23_Witness ==
    /\ processed = Names
    /\ \A n \in Names : StateOf(inner, n) = "ready"
    /\ \E k \in DOMAIN snaps : snaps[k].left = 1
    /\ failed = {}
    /\ log = {}

\* every request the endpoint behind ch made for n has its message on ch
AllDelivered(ch, n) ==
    /\ fetched[n] # {}
    /\ Cardinality(QueuedFor(ch, FetchedFile(n).id)) = Cardinality(EndpointRequests(ch, n))
    /\ \A k \in QueuedFor(ch, FetchedFile(n).id) : chans[ch].queue[k] = FetchedFile(n)

\* a request through an endpoint for a Ready name hands the file to a
\* delivery task in the same step
C24_ReadyStep ==
    \A n \in Names :
        (StateOf(inner, n) = "ready" /\ Len(calls'[n]) > Len(calls[n])
            /\ calls'[n][Len(calls'[n])].sender # None) =>
                sends' = sends (+) SetToBag({[chan |-> calls'[n][Len(calls'[n])].sender[1],
                                              file |-> inner.ready_files[calls[n][1].id]]})

\* C24: every request made through an endpoint for a name that resolves puts
\* exactly one message on that endpoint's channel, whatever the name's state
\* was at the call: with poll() called again and again and delivery tasks
\* run, k requests end up as exactly k messages, and a request for a Ready
\* name needs only its delivery task, no poll().
C24_OneMessagePerRequest ==
    /\ \A n \in Names :
          (fetched[n] # {}) ~> (\A ch \in DOMAIN chans : AllDelivered(ch, n))
    /\ [][C24_ReadyStep]_vars

C24_Witness ==
    \E n \in Names, ch \in DOMAIN chans :
        /\ Len(calls[n]) = 3
        /\ \A i \in 1..3 : calls[n][i].sender = Some(ch)
        /\ calls[n][2].state = "pending"
        /\ calls[n][3].state = "ready"
        /\ sends = EmptyBag
        /\ Len(chans[ch].queue) = 3
        /\ AllDelivered(ch, n)

\* the invocations of callbacks that send file on ch
InvokedFor(ch, file) ==
    {k \in DOMAIN invoked : CallOf(invoked[k].cb).sender = Some(ch) /\ invoked[k].file = file}

\* where the first invocation for ch of a callback of n stands in invoked
FirstInvoked(ch, n) ==
    CHOOSE k \in DOMAIN invoked :
        /\ invoked[k].cb[1] = n /\ CallOf(invoked[k].cb).sender = Some(ch)
        /\ \A j \in 1..(k - 1) :
              ~(invoked[j].cb[1] = n /\ CallOf(invoked[j].cb).sender = Some(ch))

\* C25 as stated: messages are on an endpoint's channel in the order in which
\* the callbacks that sent them were invoked.
C25_ChannelOrderIsInvocationOrder ==
    \A ch \in DOMAIN chans :
        \A q1, q2 \in DOMAIN chans[ch].queue :
            LET n1 == NameOf(chans[ch].queue[q1].id)
                n2 == NameOf(chans[ch].queue[q2].id)
            IN  (q1 < q2 /\ n1 # n2) => FirstInvoked(ch, n1) < FirstInvoked(ch, n2)

\* C25 amended: an endpoint's channel holds, together with the delivery tasks
\* still to run, exactly one message per invoked callback of that endpoint,
\* each with the file the callback was handed; their order on the channel is
\* the order in which the delivery tasks ran, not the order of invocation.
C25_ChannelHoldsInvokedMessages ==
    \A ch \in DOMAIN chans :
        /\ \A k \in DOMAIN invoked :
              CallOf(invoked[k].cb).sender = Some(ch) =>
                  Cardinality({q \in DOMAIN chans[ch].queue :
                                  chans[ch].queue[q] = invoked[k].file})
                      + InFlightFor(ch, invoked[k].file)
                    = Cardinality(InvokedFor(ch, invoked[k].file))
        /\ \A q \in DOMAIN chans[ch].queue : InvokedFor(ch, chans[ch].queue[q]) # {}
        /\ \A t \in BagToSet(sends) : t.chan = ch => InvokedFor(ch, t.file) # {}

\* two messages on the channel in the order opposite to their invocation
C25_Witness ==
    \E ch \in DOMAIN chans :
        /\ Len(chans[ch].queue) = 2
        /\ sends = EmptyBag
        /\ NameOf(chans[ch].queue[1].id) # NameOf(chans[ch].queue[2].id)
        /\ FirstInvoked(ch, NameOf(chans[ch].queue[2].id))
              < FirstInvoked(ch, NameOf(chans[ch].queue[1].id))

\* C26: callbacks run while `inner` is borrowed mutably. A closure that calls
\* a method of a clone of the loader never gets to run that method: its
\* invocation, from poll() or from get_or_request on a Ready name, ends in a
\* panic, nothing is called after it, and when it is called the name's Ready
\* record is in place and its Pending record is gone. Nothing else panics.
C26_ReentryPanics ==
    /\ \A k \in DOMAIN invoked :
          /\ invoked[k].reentry # "ran"
          /\ invoked[k].reentry = "none" <=> CallOf(invoked[k].cb).reenter = None
          /\ invoked[k].reentry = "panicked" =>
                /\ panicked
                /\ k = Len(invoked)
                /\ snaps[k].ready
                /\ ~snaps[k].pending
    /\ panicked => \E k \in DOMAIN invoked : invoked[k].reentry = "panicked"
    /\ DOMAIN inner.endpoint_id_map = {}
    /\ \A n \in Names : find_file_id(inner, n) # None <=> n \in Requested

\* the panic came out of poll() and left a received-later message unreceived
C26_Witness ==
    /\ panicked
    /\ channel # <<>>
    /\ CallOf(invoked[Len(invoked)].cb).state = "pending"
    /\ CallOf(invoked[Len(invoked)].cb).reenter = Some("try_get_file")
    /\ invoked[Len(invoked)].reentry = "panicked"

\* C27: an endpoint's id stays registered. No step removes an entry of
\* endpoint_id_map or changes the sender it holds, every endpoint returned so
\* far has its id in the map after every step, and no step panics, so
\* request never fails with "Endpoint wasn't registered?".
C27_Step ==
    /\ \A id \in DOMAIN inner.endpoint_id_map :
          /\ id \in DOMAIN inner'.endpoint_id_map
          /\ inner'.endpoint_id_map[id] = inner.endpoint_id_map[id]
    /\ \A e \in DOMAIN endpoints' : endpoints'[e].id \in DOMAIN inner'.endpoint_id_map
    /\ ~panicked'

C27_EndpointStaysRegistered == [][C27_Step]_vars

\* two endpoints, each has made a request, the first one after the second
\* endpoint was registered
C27_Witness ==
    /\ Len(endpoints) = 2
    /\ DOMAIN inner.endpoint_id_map = {endpoints[1].id, endpoints[2].id}
    /\ \E n \in Names :
          /\ Len(calls[n]) = 2
          /\ calls[n][1].sender = Some(endpoints[2].receiver)
          /\ calls[n][2].sender = Some(endpoints[1].receiver)
    /\ ~panicked

\* C30: the Camera's cache is never stale. Whatever setters, clear_cache calls
\* and getters have run, the cache is empty or holds exactly what compute_cache
\* gives for the camera's current eye and rotator, the current rotator is the
\* argument of the latest set_rotator, the current eye equals (as f32 values
\* compare) the argument of the latest set_eye unless that argument holds a
\* NaN, and what forward(), right() or up() returned last is the image of the
\* unit vector under the rotation of the latest set_rotator.
C30_Expected(getter) ==
    LET r == to_matrix(camera.latest.rotator) IN
    IF getter = "forward" THEN transform_vector(r, unit_x)
    ELSE IF getter = "right" THEN transform_vector(r, unit_y)
    ELSE transform_vector(r, unit_z)

C30_CacheNeverStale ==
    /\ camera.cache # None => camera.cache[1] = compute_cache(camera)
    /\ camera.rotator = camera.latest.rotator
    /\ NaN \notin {camera.latest.eye[i] : i \in 1..3} =>
           point_eq(camera.eye, camera.latest.eye)
    /\ camera.ret # None => camera.ret[1][2] = C30_Expected(camera.ret[1][1])

\* a getter ran on a cache that was filled, then cleared by a setter with a new
\* rotator, and filled again
C30_Witness ==
    /\ camera.ret # None
    /\ camera.ret[1][1] = "forward"
    /\ camera.ret[1][2] = unit_y
    /\ camera.eye = <<1, 0, 0>>
    /\ camera.cache # None

\* the positions in the latest handler's calls where it made the given call
Calls(r, what) == {k \in DOMAIN r.did : r.did[k] = what}

\* a step of the RedrawRequested handler: only that handler calls
\* request_redraw(), first of all; a request or a fetch task changes calls or
\* tasks
RedrawStep ==
    /\ renderer'.did # <<>>
    /\ renderer'.did[1] = "request_redraw"
    /\ calls' = calls
    /\ tasks' = tasks

\* C28: in the tutorial-09 renderer, the handler of a RedrawRequested event that
\* arrives after a Resized event calls FileLoader.poll() exactly once, before
\* the one models_draw_pass.update() of that frame, and the loader's completion
\* channel is drained by it; the handler of a RedrawRequested event that
\* arrives before any Resized event does not call poll() and leaves the loader
\* as it was.
C28_Step ==
    RedrawStep =>
        IF renderer.resized
        THEN /\ Cardinality(Calls(renderer', "file_loader.poll")) = 1
             /\ Cardinality(Calls(renderer', "models_draw_pass.update")) = 1
             /\ \A k \in Calls(renderer', "file_loader.poll") :
                    \A u \in Calls(renderer', "models_draw_pass.update") : k < u
             /\ channel' = <<>>
             /\ processed' = processed \cup {channel[k][1] : k \in DOMAIN channel}
        ELSE /\ Calls(renderer', "file_loader.poll") = {}
             /\ UNCHANGED loader_vars

C28_PollOncePerConfiguredFrame == [][C28_Step]_vars

\* a frame after a Resized event polled, and its poll() received a completion
\* and ran the callback of a request
C28_Witness ==
    /\ renderer.resized
    /\ Calls(renderer, "file_loader.poll") # {}
    /\ Calls(renderer, "models_draw_pass.update") # {}
    /\ channel = <<>>
    /\ processed # {}
    /\ invoked # <<>>

\* C29: in the tutorial-09 renderer, the handler of a Touch event with phase
\* Started calls models_draw_pass.swap_model(), as the handler of a pressed left
\* mouse button does.
C29_Step ==
    /\ \A pos \in Positions :
           WindowEvent(Touch("Started", pos), "Ok") =>
               Calls(renderer', "swap_model") # {}
    /\ WindowEvent(MouseInput("Left", "Pressed"), "Ok") =>
           Calls(renderer', "swap_model") # {}

C29_TouchStartedSwapsModel == [][C29_Step]_vars

====
